---- MODULE Spec2Model ----
(***************************************************************************)
(* A model of gemini-sculptor (src/main.ts): the ClaySculptorAgent         *)
(* (generateFilename, generateClayImage, generateMultipleVariations), the  *)
(* InteractiveClaySculptor read-eval loop and the CLI front end (main,     *)
(* runSingleCommandMode, runInteractiveMode, getApiKey).                   *)
(*                                                                         *)
(* Strings the program computes with (input lines, descriptions, file      *)
(* names, paths) are sequences of one-character strings, so that trim,     *)
(* toLowerCase, the sanitising replace and the variations regex are        *)
(* computed as the code computes them.                                     *)
(***************************************************************************)
EXTENDS Naturals, Integers, Sequences, FiniteSets, Bags, TLC

(***************************************************************************)
(* Bounds of the model.                                                    *)
(***************************************************************************)
\* What the user does: program starts and lines typed at the prompt.
MaxInputs == 2
MaxEvents == 6
MaxClock == 1
\* Completions are explored for processes that made at most MaxReqs
\* generateClayImage calls; for a larger fan-out only the dispatch is.
MaxReqs == 4

(***************************************************************************)
(* Characters and string helpers.                                          *)
(***************************************************************************)
UpperAlpha == <<"A","B","C","D","E","F","G","H","I","J","K","L","M",
                "N","O","P","Q","R","S","T","U","V","W","X","Y","Z">>
LowerAlpha == <<"a","b","c","d","e","f","g","h","i","j","k","l","m",
                "n","o","p","q","r","s","t","u","v","w","x","y","z">>
Digits == <<"0","1","2","3","4","5","6","7","8","9">>

Range(s) == { s[i] : i \in DOMAIN s }

IsDigit(c) == c \in Range(Digits)
IsAlnum(c) == c \in Range(UpperAlpha) \cup Range(LowerAlpha) \cup Range(Digits)
IsSpace(c) == c \in {" ", "\t"}

ToLowerChar(c) ==
  IF c \in Range(UpperAlpha)
    THEN LowerAlpha[CHOOSE i \in DOMAIN UpperAlpha : UpperAlpha[i] = c]
    ELSE c

toLowerCase(s) == [i \in DOMAIN s |-> ToLowerChar(s[i])]

RECURSIVE trimStart(_)
trimStart(s) ==
  IF s # <<>> /\ IsSpace(Head(s)) THEN trimStart(Tail(s)) ELSE s

RECURSIVE trimEnd(_)
trimEnd(s) ==
  IF s # <<>> /\ IsSpace(s[Len(s)]) THEN trimEnd(SubSeq(s, 1, Len(s) - 1)) ELSE s

trim(s) == trimEnd(trimStart(s))

DigitVal(c) == (CHOOSE i \in DOMAIN Digits : Digits[i] = c) - 1

RECURSIVE parseInt(_)
parseInt(ds) ==
  IF ds = <<>> THEN 0
  ELSE 10 * parseInt(SubSeq(ds, 1, Len(ds) - 1)) + DigitVal(ds[Len(ds)])

RECURSIVE ToStr(_)
ToStr(n) ==
  IF n < 10 THEN <<Digits[n + 1]>>
  ELSE ToStr(n \div 10) \o <<Digits[(n % 10) + 1]>>

Pad2(n) == <<Digits[((n \div 10) % 10) + 1], Digits[(n % 10) + 1]>>
Pad3(n) == <<Digits[((n \div 100) % 10) + 1]>> \o Pad2(n)

\* userInput.replace(/[^a-zA-Z0-9]/g, "_")
sanitize(s) == [i \in DOMAIN s |-> IF IsAlnum(s[i]) THEN s[i] ELSE "_"]

\* The clock counts milliseconds from 2025-01-01T00:00:00.000Z.
toISOString(t) ==
  <<"2","0","2","5","-","0","1","-","0","1","T","0","0",":","0","0",":">>
    \o Pad2((t \div 1000) % 60) \o <<".">> \o Pad3(t % 1000) \o <<"Z">>

\* new Date().toISOString().replace(/[:.]/g, "-")
timestamp(t) ==
  LET iso == toISOString(t)
  IN  [i \in DOMAIN iso |-> IF iso[i] \in {":", "."} THEN "-" ELSE iso[i]]

(***************************************************************************)
(* String constants of the program.                                        *)
(***************************************************************************)
S_quit == <<"q","u","i","t">>
S_exit == <<"e","x","i","t">>
S_help == <<"h","e","l","p">>
S_clear == <<"c","l","e","a","r">>
S_variations == <<"v","a","r","i","a","t","i","o","n","s">>
S_clay == <<"c","l","a","y","_">>
S_variation == <<"_","v","a","r","i","a","t","i","o","n","_">>
S_png == <<".","p","n","g">>
S_us == <<"_">>
S_slash == <<"/">>

defaultModel == "imagen-4.0-generate-001"
defaultOutputDir == <<".","/","o","u","t","p","u","t">>

\* undefined and the empty string are both falsy; every use in the code is
\* through || or a truthiness test, so one value stands for both.
NoStr == <<>>

(***************************************************************************)
(* ClaySculptorAgent.generateFilename                                      *)
(***************************************************************************)
\* generateFilename without the variation index in the name.
generateFilenameNoIndex(userInput, isVariation, variationIndex, now) ==
  S_clay \o sanitize(userInput) \o S_us \o timestamp(now) \o S_png

generateFilename(userInput, isVariation, variationIndex, now) ==
  IF isVariation /\ variationIndex >= 0
    THEN S_clay \o sanitize(userInput) \o S_variation
           \o ToStr(variationIndex + 1) \o S_us \o timestamp(now) \o S_png
    ELSE S_clay \o sanitize(userInput) \o S_us \o timestamp(now) \o S_png

(***************************************************************************)
(* ClaySculptorAgent.generateClayImage: the output path it writes to.       *)
(***************************************************************************)
\* The output path when the explicit outputPath is not looked at.
resolveOutputPathGenerated(outputPath, outputDir, filename) ==
  outputDir \o S_slash \o filename

resolveOutputPath(outputPath, outputDir, filename) ==
  IF outputPath # NoStr THEN outputPath ELSE outputDir \o S_slash \o filename

\* A request: one call of generateClayImage and its position in the call.
\* stage: "mkdir" (awaiting ensureOutputDirectory), "api" (awaiting the
\* retried generateImages call), "write" (awaiting Deno.writeFile), "done"
\* (returned result), "failed" (rejected with error; raised is the error
\* that reached the catch block).
generateClayImage(id, userInput, outputPath, model, outputDir) ==
  [id |-> id,
   userInput |-> userInput,
   outputPath |-> outputPath,
   model |-> IF model = "" THEN defaultModel ELSE model,
   outputDir |-> IF outputDir = NoStr THEN defaultOutputDir ELSE outputDir,
   stage |-> "mkdir",
   response |-> "none",
   finalPath |-> NoStr,
   result |-> NoStr,
   raised |-> "",
   error |-> ""]

\* The catch block of generateClayImage: log and rethrow the same error.
rethrow(error) == error

\* The configs generateMultipleVariations maps over Array.from({length: count}).
generateMultipleVariations(firstId, userInput, count, now) ==
  [i \in 1..count |->
     generateClayImage(firstId + i - 1, userInput,
       defaultOutputDir \o S_slash \o generateFilename(userInput, TRUE, i - 1, now),
       defaultModel, defaultOutputDir)]

(***************************************************************************)
(* InteractiveClaySculptor: command recognition.                           *)
(***************************************************************************)
\* \s+ from index from on: the first index j >= from that is not a space.
SpaceEnd(s, from) ==
  CHOOSE j \in from..(Len(s) + 1) :
    /\ \A k \in from..(j - 1) : IsSpace(s[k])
    /\ j = Len(s) + 1 \/ ~IsSpace(s[j])

\* \d+ from index from on: the first index j >= from that is not a digit.
DigitEnd(s, from) ==
  CHOOSE j \in from..(Len(s) + 1) :
    /\ \A k \in from..(j - 1) : IsDigit(s[k])
    /\ j = Len(s) + 1 \/ ~IsDigit(s[j])

NoMatch == [ok |-> FALSE, count |-> <<>>, description |-> <<>>]

\* The groups, given where the first \s+ (a), the \d+ (b) and the second
\* \s+ (c) stop.  (.+) takes what follows the second \s+; when nothing
\* follows, \s+ backtracks and gives it its last character.
matchGroups(input, a, b, c) ==
  LET g == IF c <= Len(input) THEN c ELSE c - 1
  IN  IF c > b /\ g > b /\ g <= Len(input)
        THEN [ok |-> TRUE, count |-> SubSeq(input, a, b - 1),
              description |-> SubSeq(input, g, Len(input))]
        ELSE NoMatch

matchDigits(input, a, b) ==
  IF b > a THEN matchGroups(input, a, b, SpaceEnd(input, b)) ELSE NoMatch

matchSpace(input, a) ==
  IF a > 11 THEN matchDigits(input, a, DigitEnd(input, a)) ELSE NoMatch

\* input.match(/^variations\s+(\d+)\s+(.+)$/i).  \s+ and \d+ are greedy and
\* their classes are disjoint, so the only backtracking that can succeed is
\* the second \s+ giving its last character to (.+).  A line read by
\* prompt() holds no line terminator, so . matches every character.
variationsMatch(input) ==
  IF Len(input) >= 10 /\ toLowerCase(SubSeq(input, 1, 10)) = S_variations
    THEN matchSpace(input, SpaceEnd(input, 11))
    ELSE NoMatch

\* The range test with its upper limit off by one.
countRejectedAtTen(count) == count < 1 \/ count >= 10

\* if (count < 1 || count > 10)
countRejected(count) == count < 1 \/ count > 10

\* handleVariationsCommand after a match; handled: the value returned;
\* act: what the handler did.
variationsOf(count, description) ==
  [handled |-> TRUE,
   act |-> IF countRejected(count) THEN "warn" ELSE "generate",
   count |-> count,
   description |-> description]

matched(m) ==
  IF m.ok THEN variationsOf(parseInt(m.count), trim(m.description))
  ELSE [handled |-> FALSE, act |-> "none", count |-> 0, description |-> NoStr]

handleVariationsCommand(input) == matched(variationsMatch(input))

\* The exit test that knows quit only.
isExitQuitOnly(lowerInput) == lowerInput = S_quit

\* if (lowerInput === "quit" || lowerInput === "exit")
isExit(lowerInput) == lowerInput = S_quit \/ lowerInput = S_exit

\* handleCommand after the session commands: the variations command, or
\* else the single image.
generation(input, v) ==
  IF v.handled
    THEN [exit |-> FALSE, ran |-> <<"variations">>, act |-> v.act,
          count |-> v.count, description |-> v.description]
    ELSE [exit |-> FALSE, ran |-> <<"single">>, act |-> "single",
          count |-> 1, description |-> input]

\* exit: the value returned (true ends the session); ran: the handlers that
\* acted on the line, in order; act: the generation started, if any.
command(input, lowerInput) ==
  IF isExit(lowerInput)
    THEN [exit |-> TRUE, ran |-> <<"quit">>, act |-> "none",
          count |-> 0, description |-> NoStr]
  ELSE IF lowerInput = S_help
    THEN [exit |-> FALSE, ran |-> <<"help">>, act |-> "none",
          count |-> 0, description |-> NoStr]
  ELSE IF lowerInput = S_clear
    THEN [exit |-> FALSE, ran |-> <<"clear">>, act |-> "none",
          count |-> 0, description |-> NoStr]
  ELSE generation(input, handleVariationsCommand(input))

\* handleCommand comparing the input as typed, not its lower-case form.
handleCommandAsTyped(input) == command(input, input)

handleCommand(input) == command(input, toLowerCase(input))

\* A catch block that leaves the loop.
sessionCatchLeaves == "terminated"

\* The catch block of the session loop: log, and go round the loop again.
sessionCatch == "prompt"

(***************************************************************************)
(* CLI front end.                                                          *)
(***************************************************************************)
\* getApiKey without the test of the key.
getApiKeyUnchecked(key) == TRUE

\* getApiKey: TRUE when it returns the key, FALSE when it calls Deno.exit(1).
getApiKey(key) == key # ""

\* main's dispatch on the parsed arguments.
main(args) ==
  IF args.help THEN "help"
  ELSE IF args.version THEN "version"
  ELSE IF args.interactive THEN "interactive"
  ELSE IF Len(args.positional) = 0 THEN "help"
  ELSE "single"

\* runSingleCommandMode: args.variations ? parseInt(args.variations) : 1
singleVariations(args) ==
  IF args.variations # NoStr THEN parseInt(args.variations) ELSE 1

\* runSingleCommandMode: the config of its generateClayImage call.
singleRequest(id, args) ==
  LET userInput == args.positional[1]
  IN  generateClayImage(id, userInput,
        IF args.output # NoStr THEN args.output
          ELSE defaultOutputDir \o S_slash \o sanitize(userInput) \o S_png,
        IF args.model # "" THEN args.model ELSE defaultModel,
        IF args.outputDir # NoStr THEN args.outputDir ELSE defaultOutputDir)

\* runInteractiveMode and the InteractiveClaySculptor constructor: options.
sessionOptions(args) ==
  [model |-> IF args.model # "" THEN args.model ELSE defaultModel,
   outputDir |-> IF args.outputDir # NoStr THEN args.outputDir ELSE defaultOutputDir]

\* generateSingleImage: the config of its generateClayImage call.
generateSingleImage(id, description, options) ==
  generateClayImage(id, description, NoStr, options.model, options.outputDir)

(***************************************************************************)
(* Inputs of the model: the lines a user types, the command lines the      *)
(* program is started with, the responses of the image API.                *)
(***************************************************************************)
D_cat == <<"c","a","t">>
D_ab == <<"a"," ","b">>
P_custom == <<"o",".","p","n","g">>
P_dir == <<"d">>

Lines ==
  { NoStr,
    <<" ">>,
    S_quit,
    <<" ","E","X","I","T","\t">>,
    S_quit \o <<" ">> \o D_cat,
    S_help,
    <<"C","l","e","a","r">>,
    D_cat,
    S_variations \o <<" ","2"," ">> \o D_cat,
    <<"V","A","R","I","A","T","I","O","N","S">> \o <<" ","0","1"," "," ">> \o D_ab,
    S_variations \o <<" ","0"," ">> \o D_cat,
    S_variations \o <<" ","1","0"," ">> \o D_cat,
    S_variations \o <<" ","1","1"," ">> \o D_cat,
    S_variations \o <<" ","x"," ">> \o D_cat }

NoArgs ==
  [interactive |-> FALSE, help |-> FALSE, version |-> FALSE,
   positional |-> <<>>, variations |-> NoStr, output |-> NoStr,
   outputDir |-> defaultOutputDir, model |-> ""]

\* parseArgs gives args["output-dir"] the default "./output".
ArgSets ==
  { NoArgs,
    [NoArgs EXCEPT !.help = TRUE, !.interactive = TRUE],
    [NoArgs EXCEPT !.version = TRUE, !.positional = <<D_cat>>],
    [NoArgs EXCEPT !.interactive = TRUE, !.outputDir = P_dir, !.model = "custom-model"],
    [NoArgs EXCEPT !.positional = <<D_cat>>],
    [NoArgs EXCEPT !.positional = <<D_ab>>, !.output = P_custom, !.variations = <<"1">>],
    [NoArgs EXCEPT !.positional = <<D_cat>>, !.outputDir = P_dir, !.model = "custom-model"],
    [NoArgs EXCEPT !.positional = <<D_cat>>, !.variations = <<"2">>] }

\* GEMINI_API_KEY: "" when the variable is not set.
Keys == {"", "key"}

\* What the retried generateImages call resolves to: no generatedImages
\* field, an empty list, a first image without imageBytes, base64 text, or
\* a Uint8Array.
Responses == {"NoList", "EmptyList", "NoBytes", "Base64", "Bytes"}

(***************************************************************************)
(* State.                                                                  *)
(***************************************************************************)
VARIABLES
  pc,         \* "init", "prompt" (session idle in prompt()), "dispatching"
              \* (a line is being handled), "awaiting" (a command's
              \* generation is awaited), "terminated" (session loop left,
              \* process still alive), "exited"
  mode,       \* what main dispatched to: "none", "help", "version",
              \* "interactive", "single"
  apiKey,     \* GEMINI_API_KEY of the running process
  args,       \* the parsed command line of the running process
  exitCode,   \* exit code of the process, -1 while it runs
  runs,       \* processes started so far
  lines,      \* lines read by prompt() so far
  events,     \* I/O completions delivered so far
  clock,      \* the wall clock when a file name was last made from it, in
              \* milliseconds
  reqs,       \* the generateClayImage calls of the running process that
              \* are in flight or belong to the command handled last,
              \* by call number
  cur,        \* the generation the current command awaits, and its outcome
  lastInput,  \* the line prompt() returned last
  ran,        \* the handlers that acted on lastInput
  console,    \* what the last step logged
  netCalls,   \* generateImages calls issued by the running process
  nextId,     \* number of generateClayImage calls made so far, all processes
  dirs,       \* directories that exist
  written     \* bag of [rid, path]: the Deno.writeFile calls that succeeded

vars == <<pc, mode, apiKey, args, exitCode, runs, lines, events, clock, reqs,
          cur, lastInput, ran, console, netCalls, nextId, dirs, written>>

NoCmd == [kind |-> "none", ids |-> <<>>, status |-> "none",
          paths |-> <<>>, error |-> ""]

NoCalls == [id \in {} |-> 0]

Init ==
  /\ pc = "init"
  /\ mode = "none"
  /\ apiKey = ""
  /\ args = NoArgs
  /\ exitCode = -1
  /\ runs = 0
  /\ lines = 0
  /\ events = 0
  /\ clock = 0
  /\ reqs = NoCalls
  /\ cur = NoCmd
  /\ lastInput = NoStr
  /\ ran = <<>>
  /\ console = <<>>
  /\ netCalls = 0
  /\ nextId = 0
  /\ dirs = {}
  /\ written = EmptyBag

InFlight(rs) == { id \in DOMAIN rs : rs[id].stage \in {"mkdir", "api", "write"} }

\* The calls of a sequence of calls, by call number.
ById(calls) ==
  [id \in { calls[i].id : i \in DOMAIN calls } |->
     calls[CHOOSE i \in DOMAIN calls : calls[i].id = id]]

\* The command that awaits the calls of a sequence of calls.
Awaiting(kind, calls) ==
  [kind |-> kind, ids |-> [i \in DOMAIN calls |-> calls[i].id],
   status |-> "pending", paths |-> <<>>, error |-> ""]

(***************************************************************************)
(* Starting the program: main, runSingleCommandMode, runInteractiveMode up *)
(* to the first point where they wait.                                     *)
(***************************************************************************)
Start(a, key, now) ==
  /\ pc \in {"init", "exited"}
  /\ runs + lines < MaxInputs
  /\ (main(a) = "single" /\ getApiKey(key) /\ singleVariations(a) > 1) \/ now = clock
  /\ clock' = now
  /\ runs' = runs + 1
  /\ args' = a
  /\ apiKey' = key
  /\ mode' = main(a)
  /\ LET new == IF main(a) = "single" /\ getApiKey(key)
                  THEN IF singleVariations(a) > 1
                         THEN generateMultipleVariations(nextId, a.positional[1],
                                                         singleVariations(a), now)
                         ELSE <<singleRequest(nextId, a)>>
                  ELSE <<>>
     IN  /\ reqs' = ById(new)
         /\ nextId' = nextId + Len(new)
         /\ cur' = IF new = <<>> THEN NoCmd
                   ELSE Awaiting(IF singleVariations(a) > 1 THEN "batch" ELSE "single",
                                 new)
  /\ netCalls' = 0
  /\ lastInput' = NoStr
  /\ ran' = <<>>
  /\ IF main(a) \in {"help", "version"}
       THEN /\ pc' = "exited"
            /\ exitCode' = 0
            /\ console' = <<main(a)>>
     ELSE IF ~getApiKey(key)
       THEN /\ pc' = "exited"
            /\ exitCode' = 1
            /\ console' = <<"missing-key">>
     ELSE IF main(a) = "interactive"
       THEN /\ pc' = "prompt"
            /\ exitCode' = -1
            /\ console' = <<"welcome">>
     ELSE /\ pc' = "awaiting"
          /\ exitCode' = -1
          /\ console' = <<"spinner">>
  /\ UNCHANGED <<lines, events, dirs, written>>

(***************************************************************************)
(* The session loop.  ReadLine: prompt() returns a line (NoStr also stands *)
(* for null) and the blank test is made; what the previous iteration left  *)
(* behind is dropped.  Dispatch: handleCommand up to the point where it    *)
(* returns or waits for a generation.                                      *)
(***************************************************************************)
ReadLine(line) ==
  /\ pc = "prompt"
  /\ runs + lines < MaxInputs
  /\ lines' = lines + 1
  /\ lastInput' = line
  /\ ran' = <<>>
  /\ console' = <<>>
  /\ cur' = NoCmd
  /\ reqs' = [id \in InFlight(reqs) |-> reqs[id]]
  /\ pc' = IF trim(line) = NoStr THEN "prompt" ELSE "dispatching"
  /\ UNCHANGED <<mode, apiKey, args, exitCode, runs, events, clock, netCalls,
                 nextId, dirs, written>>

\* The generateClayImage calls a handled command makes.
calls(d, now) ==
  IF d.act = "generate"
    THEN generateMultipleVariations(nextId, d.description, d.count, now)
  ELSE IF d.act = "single"
    THEN <<generateSingleImage(nextId, d.description, sessionOptions(args))>>
  ELSE <<>>

Dispatched(d, new) ==
  /\ ran' = d.ran
  /\ reqs' = ById(new) @@ reqs
  /\ nextId' = nextId + Len(new)
  /\ cur' = IF new = <<>> THEN cur
            ELSE Awaiting(IF d.act = "generate" THEN "batch" ELSE "single", new)
  /\ pc' = IF d.exit THEN "terminated"
           ELSE IF new # <<>> THEN "awaiting"
           ELSE "prompt"
  /\ console' = IF d.act = "warn" THEN <<"warn-range">>
                ELSE IF new # <<>> THEN <<"spinner">>
                ELSE d.ran

Dispatch(now) ==
  /\ pc = "dispatching"
  /\ clock' = now
  /\ \E d \in {handleCommand(trim(lastInput))} :
       /\ d.act = "generate" \/ now = clock
       /\ \E new \in {calls(d, now)} : Dispatched(d, new)
  /\ UNCHANGED <<mode, apiKey, args, exitCode, runs, lines, events, lastInput,
                 netCalls, dirs, written>>

(***************************************************************************)
(* I/O completions.  The event loop runs only while the program awaits:    *)
(* prompt() blocks it.  A completion resumes one generateClayImage call,   *)
(* and, when that settles the promise the current command awaits, the      *)
(* command's continuation runs in the same turn.                           *)
(***************************************************************************)
Resumable(r) ==
  /\ pc \in {"awaiting", "terminated"}
  /\ events < MaxEvents
  /\ Cardinality(DOMAIN reqs) <= MaxReqs
  /\ r \in InFlight(reqs)

\* The catch block of generateClayImage.
Fail(req, e) ==
  [req EXCEPT !.stage = "failed", !.raised = e, !.error = rethrow(e)]

\* await Promise.all(promises), after the promise at index r changed: "ok"
\* once every promise is fulfilled, "err" as soon as one is rejected.
\* await of a single generateClayImage call is the case of one promise.
promiseAll(rs, ids, r) ==
  IF r \notin Range(ids) THEN "none"
  ELSE IF rs[r].stage = "failed" THEN "err"
  ELSE IF \A i \in DOMAIN ids : rs[ids[i]].stage = "done" THEN "ok"
  ELSE "none"

Settle(rs, r, msgs) ==
  LET o == IF cur.status = "pending" THEN promiseAll(rs, cur.ids, r) ELSE "none"
  IN  /\ reqs' = rs
      /\ IF o = "none"
           THEN /\ console' = msgs
                /\ UNCHANGED <<cur, pc, exitCode>>
           ELSE /\ cur' = [cur EXCEPT
                            !.status = o,
                            !.paths = IF o = "ok"
                                        THEN [i \in DOMAIN cur.ids |-> rs[cur.ids[i]].result]
                                        ELSE <<>>,
                            !.error = IF o = "err" THEN rethrow(rs[r].error) ELSE ""]
                /\ IF mode = "interactive"
                     THEN /\ pc' = IF o = "err" THEN sessionCatch ELSE "prompt"
                          /\ exitCode' = exitCode
                          /\ console' = msgs \o (IF o = "err" THEN <<"error">> ELSE <<>>)
                     ELSE /\ pc' = "exited"
                          /\ exitCode' = IF o = "err" THEN 1 ELSE 0
                          /\ console' = msgs \o (IF o = "err" THEN <<"fatal">>
                                                 ELSE <<"completed">>)

\* Every directory named by a prefix of path p, and p itself (recursive: true).
WithParents(p) ==
  {p} \cup { SubSeq(p, 1, i - 1) : i \in { k \in DOMAIN p : p[k] = "/" /\ k > 1 } }

\* The directory a file path lies in; NoStr is the working directory.
Dirname(p) ==
  LET slashes == { k \in DOMAIN p : p[k] = "/" }
  IN  IF slashes = {} THEN NoStr
      ELSE SubSeq(p, 1, (CHOOSE k \in slashes : \A j \in slashes : j <= k) - 1)

DirExists(d) == d = NoStr \/ d \in dirs

\* ensureOutputDirectory(outputDir) resolves; generateImages is called.
MkdirOk(r) ==
  /\ Resumable(r)
  /\ reqs[r].stage = "mkdir"
  /\ events' = events + 1
  /\ dirs' = dirs \cup WithParents(reqs[r].outputDir)
  /\ netCalls' = netCalls + 1
  /\ Settle([reqs EXCEPT ![r].stage = "api"], r, <<>>)
  /\ UNCHANGED <<mode, apiKey, args, runs, lines, clock, lastInput, ran,
                 nextId, written>>

\* Deno.mkdir fails with an error other than AlreadyExists.
MkdirErr(r) ==
  /\ Resumable(r)
  /\ reqs[r].stage = "mkdir"
  /\ events' = events + 1
  /\ Settle([reqs EXCEPT ![r] = Fail(reqs[r], "PermissionDenied")], r, <<"gen-error">>)
  /\ UNCHANGED <<mode, apiKey, args, runs, lines, clock, lastInput, ran,
                 netCalls, nextId, dirs, written>>

\* The two checks generateClayImage makes on the response.
noImages(resp) == resp \in {"NoList", "EmptyList"}

noBytesUnchecked(resp) == FALSE

noBytes(resp) == resp = "NoBytes"

\* The retried call resolves with a response; the checks on it, the file
\* name and the output path are computed in the same turn.
ApiRespond(r, resp, now) ==
  /\ Resumable(r)
  /\ reqs[r].stage = "api"
  /\ events' = events + 1
  /\ (resp \in {"Base64", "Bytes"} /\ reqs[r].outputPath = NoStr) \/ now = clock
  /\ clock' = now
  /\ LET req == [reqs[r] EXCEPT !.response = resp]
         next == IF noImages(resp) THEN Fail(req, "No images generated")
                 ELSE IF noBytes(resp) THEN Fail(req, "Generated image has no bytes")
                 ELSE [req EXCEPT
                         !.stage = "write",
                         !.finalPath = resolveOutputPath(req.outputPath, req.outputDir,
                                         generateFilename(req.userInput, FALSE, -1, now))]
     IN  Settle([reqs EXCEPT ![r] = next], r,
                IF next.stage = "failed" THEN <<"gen-error">> ELSE <<>>)
  /\ UNCHANGED <<mode, apiKey, args, runs, lines, lastInput, ran,
                 netCalls, nextId, dirs, written>>

\* The retried call gives up: retry() rejects.
ApiErr(r) ==
  /\ Resumable(r)
  /\ reqs[r].stage = "api"
  /\ events' = events + 1
  /\ Settle([reqs EXCEPT ![r] = Fail(reqs[r], "RetryError")], r, <<"gen-error">>)
  /\ UNCHANGED <<mode, apiKey, args, runs, lines, clock, lastInput, ran,
                 netCalls, nextId, dirs, written>>

\* Deno.writeFile(finalOutputPath, bytes) resolves; the path is returned.
WriteOk(r) ==
  /\ Resumable(r)
  /\ reqs[r].stage = "write"
  /\ DirExists(Dirname(reqs[r].finalPath))
  /\ events' = events + 1
  /\ written' = written (+) SetToBag({[rid |-> reqs[r].id, path |-> reqs[r].finalPath]})
  /\ Settle([reqs EXCEPT ![r].stage = "done", ![r].result = reqs[r].finalPath],
            r, <<"saved">>)
  /\ UNCHANGED <<mode, apiKey, args, runs, lines, clock, lastInput, ran,
                 netCalls, nextId, dirs>>

\* Deno.writeFile rejects: NotFound when the directory of the path does not
\* exist, otherwise some other file system error.
WriteErr(r) ==
  /\ Resumable(r)
  /\ reqs[r].stage = "write"
  /\ events' = events + 1
  /\ Settle([reqs EXCEPT ![r] = Fail(reqs[r],
               IF DirExists(Dirname(reqs[r].finalPath)) THEN "PermissionDenied"
               ELSE "NotFound")],
            r, <<"gen-error">>)
  /\ UNCHANGED <<mode, apiKey, args, runs, lines, clock, lastInput, ran,
                 netCalls, nextId, dirs, written>>

\* The session loop was left and nothing is pending: the process ends.
Exit ==
  /\ pc = "terminated"
  /\ InFlight(reqs) = {}
  /\ pc' = "exited"
  /\ exitCode' = 0
  /\ console' = <<>>
  /\ UNCHANGED <<mode, apiKey, args, runs, lines, events, clock, reqs, cur,
                 lastInput, ran, netCalls, nextId, dirs, written>>

\* The values new Date() can give: time does not run backwards.  The clock
\* is drawn only where the file name made from it is used.
Now == clock..MaxClock

Next ==
  \/ \E a \in ArgSets, key \in Keys, now \in Now : Start(a, key, now)
  \/ \E line \in Lines : ReadLine(line)
  \/ \E now \in Now : Dispatch(now)
  \/ \E r \in DOMAIN reqs : MkdirOk(r)
  \/ \E r \in DOMAIN reqs : MkdirErr(r)
  \/ \E r \in DOMAIN reqs, resp \in Responses, now \in Now : ApiRespond(r, resp, now)
  \/ \E r \in DOMAIN reqs : ApiErr(r)
  \/ \E r \in DOMAIN reqs : WriteOk(r)
  \/ \E r \in DOMAIN reqs : WriteErr(r)
  \/ Exit

Spec == Init /\ [][Next]_vars

(***************************************************************************)
(* Properties.                                                             *)
(***************************************************************************)
HasPrefix(s, p) == Len(s) >= Len(p) /\ SubSeq(s, 1, Len(p)) = p
HasSuffix(s, p) == Len(s) >= Len(p) /\ SubSeq(s, Len(s) - Len(p) + 1, Len(s)) = p

Settled(q) == q.stage \in {"done", "failed"}

\* The count a variations batch was asked for.
RequestedCount ==
  IF mode = "single" THEN parseInt(args.variations)
  ELSE parseInt(variationsMatch(trim(lastInput)).count)

\* The description a variations batch was asked for.
RequestedDescription ==
  IF mode = "single" THEN args.positional[1]
  ELSE trim(variationsMatch(trim(lastInput)).description)

\* C1: generateMultipleVariations is all-or-nothing: when it has settled,
\* every one of its generateClayImage calls has completed (returned or
\* failed); if one of them failed the call failed, and a failed call returns
\* no list of paths.
C1_AllOrNothing ==
  cur.kind = "batch" /\ cur.status \in {"ok", "err"} =>
    /\ \A i \in DOMAIN cur.ids : Settled(reqs[cur.ids[i]])
    /\ (\E i \in DOMAIN cur.ids : reqs[cur.ids[i]].stage = "failed") => cur.status = "err"
    /\ cur.status = "err" => cur.paths = <<>>

\* C2: a variations batch of N whose N calls all succeeded returns exactly N
\* paths, pairwise distinct, the i-th being the file with variation index i
\* (1-based) in its name, and each of them written exactly once, by the
\* i-th call.
C2_BatchPaths ==
  cur.kind = "batch" /\ cur.status = "ok" =>
    /\ Len(cur.paths) = RequestedCount
    /\ Len(cur.ids) = RequestedCount
    /\ \A i, j \in DOMAIN cur.paths : i # j => cur.paths[i] # cur.paths[j]
    /\ \A i \in DOMAIN cur.paths :
         /\ HasPrefix(cur.paths[i],
              defaultOutputDir \o S_slash \o S_clay \o sanitize(RequestedDescription)
                \o S_variation \o ToStr(i) \o S_us)
         /\ HasSuffix(cur.paths[i], S_png)
         /\ \A j \in DOMAIN cur.ids :
              CopiesIn([rid |-> cur.ids[j], path |-> cur.paths[i]], written)
                = IF i = j THEN 1 ELSE 0

C2_Witness ==
  /\ cur.kind = "batch"
  /\ cur.status = "ok"
  /\ Len(cur.paths) = 2
  /\ mode = "interactive"

\* C3: every request that succeeded wrote exactly one file, and no two
\* requests, of any process, ever wrote to the same output path.
C3_NoPathReuse ==
  /\ \A id \in DOMAIN reqs :
       reqs[id].stage = "done" =>
         Cardinality({ w \in BagToSet(written) : w.rid = id }) = 1
  /\ \A w \in BagToSet(written) : CopiesIn(w, written) = 1
  /\ \A w1, w2 \in BagToSet(written) : w1.rid # w2.rid => w1.path # w2.path

\* C4: whenever the session loop is about to read the next line, no
\* generateClayImage call is still in flight.
C4_NothingInFlightAtPrompt ==
  pc = "prompt" => InFlight(reqs) = {}

\* C5: in the interactive session, a command whose generation fails has its
\* error caught and logged, and the session goes back to awaiting input; it
\* does not terminate and the process does not exit.
C5_ErrorKeepsSession ==
  [][mode = "interactive" /\ cur.status = "pending" /\ cur'.status = "err" =>
       /\ pc' = "prompt"
       /\ console'[Len(console')] = "error"
       /\ exitCode' = -1]_vars

C5_Witness ==
  /\ mode = "interactive"
  /\ cur.kind = "batch"
  /\ cur.status = "err"
  /\ pc = "prompt"

\* C6: the session terminates when, and only when, the line being handled
\* is quit or exit after trimming, whatever its case; that line starts no
\* generation; every other line leaves the session idle or awaiting, and
\* an awaited generation ends in idle.
C6_Termination ==
  [][LET l == toLowerCase(trim(lastInput))
     IN  /\ pc' = "terminated" /\ pc # "terminated" =>
              /\ pc = "dispatching"
              /\ l \in {S_quit, S_exit}
              /\ reqs' = reqs
              /\ nextId' = nextId
              /\ netCalls' = netCalls
         /\ pc = "dispatching" /\ l \in {S_quit, S_exit} => pc' = "terminated"
         /\ pc = "dispatching" /\ l \notin {S_quit, S_exit} => pc' \in {"prompt", "awaiting"}
         /\ pc = "prompt" => pc' \in {"prompt", "dispatching"}
         /\ pc = "awaiting" /\ mode = "interactive" => pc' \in {"awaiting", "prompt"}]_vars

C6_Witness ==
  /\ pc = "terminated"
  /\ lastInput = <<" ","E","X","I","T","\t">>
  /\ nextId = 0

\* C7: for a line matching the variations command, a batch is started only
\* if the count is in 1..10, and then with that many calls, each for the
\* trimmed description; otherwise a warning is logged, no call is made and
\* the session is idle again.
C7_VariationsRange ==
  [][LET m == variationsMatch(trim(lastInput))
         n == parseInt(m.count)
     IN  pc = "dispatching" /\ m.ok =>
           IF n >= 1 /\ n <= 10
             THEN /\ pc' = "awaiting"
                  /\ cur'.kind = "batch"
                  /\ Len(cur'.ids) = n
                  /\ nextId' = nextId + n
                  /\ DOMAIN reqs' = DOMAIN reqs \cup Range(cur'.ids)
                  /\ \A i \in DOMAIN cur'.ids :
                       reqs'[cur'.ids[i]].userInput = trim(m.description)
             ELSE /\ pc' = "prompt"
                  /\ console' = <<"warn-range">>
                  /\ reqs' = reqs
                  /\ cur' = cur
                  /\ nextId' = nextId
                  /\ netCalls' = netCalls]_vars

C7_Witness ==
  /\ pc = "awaiting"
  /\ cur.kind = "batch"
  /\ Len(cur.ids) = 10
  /\ lastInput = S_variations \o <<" ","1","0"," ">> \o D_cat
  /\ \A i \in DOMAIN cur.ids : reqs[cur.ids[i]].userInput = D_cat

\* The handler the decision table gives a trimmed, non-blank line.
TableHandler(t) ==
  IF toLowerCase(t) \in {S_quit, S_exit} THEN "quit"
  ELSE IF toLowerCase(t) = S_help THEN "help"
  ELSE IF toLowerCase(t) = S_clear THEN "clear"
  ELSE IF variationsMatch(t).ok THEN "variations"
  ELSE "single"

\* C8: a blank line dispatches nothing; for any other line exactly one
\* handler runs, the first in the order quit/exit, help, clear, variations,
\* and last the single-image generation, which is given the whole trimmed
\* line as its description.
C8_DecisionTable ==
  [][/\ pc = "prompt" /\ lines' # lines =>
          /\ pc' = "dispatching" <=> trim(lastInput') # NoStr
          /\ pc' # "dispatching" => pc' = "prompt"
          /\ ran' = <<>>
          /\ nextId' = nextId
          /\ InFlight(reqs') = InFlight(reqs)
     /\ pc = "dispatching" =>
          /\ ran' = <<TableHandler(trim(lastInput))>>
          /\ TableHandler(trim(lastInput)) = "single" =>
               /\ nextId' = nextId + 1
               /\ cur'.kind = "single"
               /\ cur'.ids = <<nextId>>
               /\ reqs'[nextId].userInput = trim(lastInput)
          /\ TableHandler(trim(lastInput)) \in {"quit", "help", "clear"} =>
               /\ nextId' = nextId
               /\ reqs' = reqs]_vars

C8_Witness ==
  /\ pc = "awaiting"
  /\ ran = <<"single">>
  /\ lastInput = S_variations \o <<" ","x"," ">> \o D_cat
  /\ cur.kind = "single"
  /\ reqs[cur.ids[1]].userInput = lastInput

\* C9: started in single-command or interactive mode without
\* GEMINI_API_KEY, the process exits at once with code 1, having made no
\* generation call and read no line.
C9_MissingKey ==
  /\ pc # "init" /\ apiKey = "" =>
       /\ netCalls = 0
       /\ DOMAIN reqs = {}
       /\ pc = "exited"
  /\ (pc # "init" /\ apiKey = "" /\ ~args.help /\ ~args.version
        /\ (args.interactive \/ Len(args.positional) > 0)) =>
       /\ exitCode = 1
       /\ console = <<"missing-key">>

C9_Witness ==
  /\ pc = "exited"
  /\ apiKey = ""
  /\ args.interactive
  /\ ~args.help
  /\ exitCode = 1

\* C10: a call of generateClayImage writes to its explicit outputPath when
\* it has one, and otherwise to outputDir/<name> with <name> starting with
\* clay_<sanitized description>_ and ending in .png; a call that returned
\* returned the one path it wrote to; a call that failed failed with the
\* very error that was raised, and so does the command awaiting it.
C10_OutputPath ==
  /\ \A id \in DOMAIN reqs :
       LET q == reqs[id]
       IN  /\ q.stage \in {"write", "done"} =>
                IF q.outputPath # NoStr
                  THEN q.finalPath = q.outputPath
                  ELSE /\ HasPrefix(q.finalPath,
                            q.outputDir \o S_slash \o S_clay \o sanitize(q.userInput) \o S_us)
                       /\ HasSuffix(q.finalPath, S_png)
                       /\ Dirname(q.finalPath) = q.outputDir
           /\ q.stage = "done" =>
                /\ q.result = q.finalPath
                /\ \A w \in BagToSet(written) : w.rid = id => w.path = q.result
                /\ CopiesIn([rid |-> id, path |-> q.result], written) = 1
           /\ q.stage = "failed" => q.raised # "" /\ q.error = q.raised
  /\ cur.status = "err" =>
       \E i \in DOMAIN cur.ids :
         reqs[cur.ids[i]].stage = "failed" /\ cur.error = reqs[cur.ids[i]].raised

C10_Witness ==
  \E id \in DOMAIN reqs :
    /\ reqs[id].stage = "done"
    /\ reqs[id].outputPath = NoStr
    /\ reqs[id].userInput = S_quit \o <<" ">> \o D_cat
    /\ HasPrefix(reqs[id].result,
         P_dir \o <<"/","c","l","a","y","_","q","u","i","t","_","c","a","t","_">>)
    /\ [rid |-> id, path |-> reqs[id].result] \in BagToSet(written)

\* C11: whenever a generateClayImage call is about to write its image bytes,
\* the directory its target path lies in exists: it has been created if it
\* was absent, also when the explicit outputPath lies outside outputDir.
C11_ParentCreated ==
  \A id \in DOMAIN reqs :
    reqs[id].stage = "write" => DirExists(Dirname(reqs[id].finalPath))

\* C12: a generateClayImage call whose API response had no images, or a
\* first image without bytes, has failed with the matching error and has
\* written no file; a call that is writing or has written a file received
\* a response that carried image bytes.
C12_NoPayloadNoFile ==
  \A id \in DOMAIN reqs :
    LET q == reqs[id]
        wrote == \E w \in BagToSet(written) : w.rid = id
    IN  /\ q.response \in {"NoList", "EmptyList"} =>
             /\ q.stage = "failed"
             /\ q.error = "No images generated"
             /\ q.finalPath = NoStr
             /\ ~wrote
        /\ q.response = "NoBytes" =>
             /\ q.stage = "failed"
             /\ q.error = "Generated image has no bytes"
             /\ q.finalPath = NoStr
             /\ ~wrote
        /\ (wrote \/ q.stage \in {"write", "done"}) =>
             q.response \in {"Base64", "Bytes"}

C12_Witness ==
  /\ \E id \in DOMAIN reqs :
       /\ reqs[id].response = "NoBytes"
       /\ reqs[id].stage = "failed"
       /\ reqs[id].error = "Generated image has no bytes"
  /\ cur.status = "err"
  /\ written = EmptyBag

\* C13: in a process started without --output, every generateClayImage
\* call, of a single-image request or of a variations batch, sends the
\* configured model (--model, else the default) to the API and writes
\* under the configured output directory (--output-dir, else the default).
C13_ConfigHonoured ==
  (mode \in {"single", "interactive"} /\ args.output = NoStr) =>
    \A id \in DOMAIN reqs :
      /\ reqs[id].model = sessionOptions(args).model
      /\ reqs[id].stage \in {"write", "done"} =>
           HasPrefix(reqs[id].finalPath, sessionOptions(args).outputDir \o S_slash)

====
